---- MODULE Spec2Model ----
(***************************************************************************)
(* Model of the playback worker of video-editor (src/src/player.rs): the   *)
(* command channel, the worker loop with its five command handlers and its *)
(* pacing branch, and the decoder child processes it spawns and reaps;     *)
(* and of the owner of the worker (src/src/main.rs), which sends commands   *)
(* and, when dropped, a final Stop.                                         *)
(***************************************************************************)
EXTENDS Integers, Sequences, FiniteSets, TLC

(* ------------------------------ bounds --------------------------------- *)
\* number of commands the caller sends in one run
MaxCmds == 4
\* largest number of whole frames a continuous decoder writes to its stream
MaxFrames == 2
\* number of update cycles the application runs
MaxUpdates == 4

(* ------------------------- program constants --------------------------- *)
PREVIEW_WIDTH == 640
PREVIEW_HEIGHT == 360
\* frame_size = (PREVIEW_WIDTH * PREVIEW_HEIGHT * 4) as usize
FRAME_SIZE == PREVIEW_WIDTH * PREVIEW_HEIGHT * 4

\* Option::None of current_clip_path, and of playback_process / playback_stdout
NoPath == "None"
NoProc == 0

(* ----------------------------- u32 values ------------------------------ *)
\* A u32 is kept at its true width as <<high half, low half>>, 16 bits each.
Half == 2^16
U32Of(n) == <<n \div Half, n % Half>>
U32Max == <<Half - 1, Half - 1>>
\* (mutation of U32Add: the timestamp operand is ignored)
U32Add_DropsRight(a, b) == [overflow |-> FALSE, value |-> a]
\* `a + b` on u32: the sum modulo 2^32, and whether it left the u32 range
U32Add(a, b) ==
    LET lo == a[2] + b[2]
        hi == a[1] + b[1] + (lo \div Half)
    IN  [overflow |-> hi >= Half, value |-> <<hi % Half, lo % Half>>]
\* The element of a one-element set. The operators below name their operands
\* and intermediate results as the bound variables of such a set, so that
\* each is evaluated once.
Only(S) == CHOOSE x \in S : TRUE
\* `a < b`, `a <= b`, min and max on u32
U32Lt(a, b) ==
    Only({x[1] < y[1] \/ (x[1] = y[1] /\ x[2] < y[2]) : x \in {a}, y \in {b}})
U32Le(a, b) == ~U32Lt(b, a)
U32Min(a, b) == Only({IF U32Lt(y, x) THEN y ELSE x : x \in {a}, y \in {b}})
U32Greater(a, b) == Only({IF U32Lt(x, y) THEN y ELSE x : x \in {a}, y \in {b}})
\* `a - b` on u32: the difference modulo 2^32, and whether it left the range
U32Sub(a, b) ==
    Only({LET lo == x[2] - y[2]
              hi == x[1] - y[1] - (IF x[2] < y[2] THEN 1 ELSE 0)
          IN  [overflow |-> U32Lt(x, y),
               value |-> <<(hi + Half) % Half, (lo + Half) % Half>>]
          : x \in {a}, y \in {b}})
\* `a.saturating_sub(b)`
U32SaturatingSub(a, b) ==
    Only({IF d.overflow THEN U32Of(0) ELSE d.value : d \in {U32Sub(a, b)}})
\* `x.clamp(min, max)`: Ord::clamp asserts min <= max, in every build
U32Clamp(x, min, max) ==
    Only({[abort |-> U32Lt(hi, lo),
           value |-> IF U32Lt(v, lo) THEN lo ELSE IF U32Lt(hi, v) THEN hi ELSE v]
          : v \in {x}, lo \in {min}, hi \in {max}})

(* ------------------- milliseconds to a seconds argument ---------------- *)
\* Wider naturals, for the values an f32 takes: <<high, low>> stands for
\* high * 2^16 + low, with low below 2^16 and high unbounded.
Wide(hi, lo) == <<hi + lo \div Half, lo % Half>>
WideSucc(x) == Wide(x[1], x[2] + 1)
\* the number of bits of q, for 1 <= q < 2^25
BitLength(q) == CHOOSE L \in 1..25 : 2^(L - 1) <= q /\ q < 2^L
\* `n as f32`: the nearest value with a 24-bit significand, held as
\* mant * 2^exp; a u32 with more than 24 bits loses its lowest exp bits,
\* rounded to the nearest, ties to even (IEEE 754 default)
AsF32(n) ==
    Only({IF v.t = 0
          THEN [mant |-> v.hi * Half + v.lo, exp |-> 0]
          ELSE Only({[mant |-> IF r.rem > r.half \/ (r.rem = r.half /\ r.kept % 2 = 1)
                               THEN r.kept + 1 ELSE r.kept,
                      exp |-> v.t]
                     : r \in {[kept |-> v.hi * 2^(16 - v.t) + v.lo \div 2^v.t,
                               rem |-> v.lo % 2^v.t,
                               half |-> 2^(v.t - 1)]}})
          : v \in {[hi |-> m[1], lo |-> m[2],
                    t |-> IF m[1] < 2^8 THEN 0 ELSE BitLength(m[1]) - 8] : m \in {n}}})
\* q * 2^k as a wide natural
Scaled(q, k) ==
    IF k >= 16 THEN <<q * 2^(k - 16), 0>>
    ELSE <<q \div 2^(16 - k), (q % 2^(16 - k)) * 2^k>>
\* the quotient of a wide x by 1000, rounded to the nearest integer, ties to
\* even
RoundedQuotient(x) ==
    Only({IF 2 * d.r > 1000 \/ (2 * d.r = 1000 /\ d.q % 2 = 1) THEN d.q + 1 ELSE d.q
          : d \in {[q |-> (v.hi \div 1000) * Half + v.t \div 1000, r |-> v.t % 1000]
                   : v \in {[hi |-> w[1], t |-> (w[1] % 1000) * Half + w[2]]
                            : w \in {x}}}})
\* `f / 1000.0` on f32: the quotient rounded to a 24-bit significand, held as
\* mant / 2^scale. The dividend is scaled by 2^k to lie between 2^23 * 1000
\* and 2^24 * 1000, so that the quotient has 24 bits.
F32Div1000(f) ==
    Only({IF v.mant = 0 THEN [mant |-> 0, scale |-> 0]
          ELSE Only({[mant |-> RoundedQuotient(Scaled(v.mant, k)), scale |-> k - v.exp]
                     : k \in {Only({IF Scaled(v.mant, k0)[1] >= 2^7 * 1000
                                    THEN k0 ELSE k0 + 1
                                    : k0 \in {33 - BitLength(v.mant)}})}})
          : v \in {f}})
\* format!("{:.3}", f): the decimal with three places nearest to f, as a
\* number of thousandths: 1000 * mant / 2^scale rounded to the nearest
\* integer, ties to even
Format3(f) ==
    Only({IF v.s = 0 THEN v.y
          ELSE Only({IF r.up THEN WideSucc(r.R) ELSE r.R
                     : r \in {IF v.s <= 16
                              THEN Only({[R |-> R,
                                          up |-> \/ rem > 2^(v.s - 1)
                                                 \/ rem = 2^(v.s - 1) /\ R[2] % 2 = 1]
                                         : R \in {<<v.y[1] \div 2^v.s,
                                                    (v.y[1] % 2^v.s) * 2^(16 - v.s)
                                                        + v.y[2] \div 2^v.s>>},
                                           rem \in {v.y[2] % 2^v.s}})
                              ELSE Only({[R |-> R,
                                          up |-> \/ remh > 2^(v.s - 17)
                                                 \/ remh = 2^(v.s - 17) /\ v.y[2] > 0
                                                 \/ /\ remh = 2^(v.s - 17)
                                                    /\ v.y[2] = 0
                                                    /\ R[2] % 2 = 1]
                                         : R \in {Wide(0, v.y[1] \div 2^(v.s - 16))},
                                           remh \in {v.y[1] % 2^(v.s - 16)}})}})
          : v \in {[y |-> Wide(1000 * (g.mant \div Half), 1000 * (g.mant % Half)),
                    s |-> g.scale] : g \in {f}}})
\* (mutation of SecsArg: the milliseconds are passed through unchanged)
SecsArg_Exact(ms) == ms
\* format!("{:.3}", ms as f32 / 1000.0): the argument given to ffmpeg
SecsArg(ms) == Format3(F32Div1000(AsF32(ms)))

(* ------------------------------ inputs --------------------------------- *)
\* a stream that ends inside a frame delivers this many bytes of it
PartialBytes == FRAME_SIZE - 1
\* the sources the caller loads: path, trim_start_ms, trim_end_ms
Sources == { <<"a.mp4", U32Of(0), U32Of(2000)>>, <<"b.mp4", U32Of(500), U32Of(1500)>> }
Timestamps == {U32Of(0), U32Max}

LoadClip(src) == [type |-> "LoadClip", path |-> src[1],
                  trim_start_ms |-> src[2], trim_end_ms |-> src[3]]
StartPlayback(ts) == [type |-> "StartPlayback", timestamp_ms |-> ts]
StopPlayback == [type |-> "StopPlayback"]
Seek(ts) == [type |-> "Seek", timestamp_ms |-> ts]
Stop == [type |-> "Stop"]

PlayerCommand ==
    {LoadClip(s) : s \in Sources} \cup {StartPlayback(t) : t \in Timestamps}
    \cup {StopPlayback} \cup {Seek(t) : t \in Timestamps} \cup {Stop}

\* total bytes a continuous decoder writes before its stream closes
StreamLens == {n * FRAME_SIZE + r : n \in 0..MaxFrames, r \in {0, PartialBytes}}
\* total bytes a one-shot (-frames:v 1) decoder writes
OneShotLens == {0, PartialBytes, FRAME_SIZE}

(* ------------------------------- state --------------------------------- *)
VARIABLES
    cmdq,        \* command channel: commands sent and not yet received
    sent,        \* every command passed to send_command, in call order
    applied,     \* every command the worker has matched on, in order
    pc,          \* worker position: "recv", "pace", "exited" or "panicked"
    owner,       \* the application: "running", "dropped", "exited", or
                 \* "panicked" when update() aborted
    app,         \* the fields of VideoEditorApp, and what the latest update
                 \* cycle did
    overflow_checks, \* the build's integer overflow checks: "on" or "off",
                 \* "unobserved" until the first overflow shows which
    current_clip_path,
    current_clip_trim_start_ms,
    current_clip_trim_end_ms,
    playback_process,
    playback_stdout,
    is_playing,
    nspawned,    \* number of decoder processes spawned so far (pid source)
    unreaped,    \* pids spawned and not yet waited on
    max_alive,   \* largest number of unreaped children at any instant so far
    stream_bytes,    \* bytes still to come on the continuous decoder's stdout
    requests,    \* every decoder command line handed to spawn(), in order
    last_read_bytes, \* bytes the latest read_exact obtained
    frame_log,   \* every DecodedFrame sent on frame_sender, in order
    ended_sent,  \* number of PlaybackEnded sent on playback_ended_sender
    ended_log    \* per PlaybackEnded sent: frames sent before it, and the
                 \* decoder process whose stream had ended

chanVars == <<cmdq, sent, applied>>
sourceVars == <<current_clip_path, current_clip_trim_start_ms, current_clip_trim_end_ms>>
sessionVars == <<playback_process, playback_stdout, is_playing>>
procVars == <<nspawned, unreaped, max_alive, stream_bytes, requests>>
outVars == <<last_read_bytes, frame_log, ended_sent, ended_log>>
vars == <<chanVars, pc, owner, app, overflow_checks, sourceVars, sessionVars, procVars, outVars>>

Max(a, b) == IF a >= b THEN a ELSE b
Min(a, b) == IF a <= b THEN a ELSE b

(* --------------------------- channel helpers --------------------------- *)
\* (mutation of ChanSend: the newest message jumps the queue)
ChanSend_Lifo(q, c) == <<c>> \o q
\* mpsc::Sender::send: FIFO append
ChanSend(q, c) == Append(q, c)
\* mpsc::Receiver::try_recv: the oldest pending message
ChanFront(q) == Head(q)
\* (mutation of ChanRest: one receive drains two messages)
ChanRest_DropsTwo(q) == IF Len(q) > 1 THEN Tail(Tail(q)) ELSE Tail(q)
ChanRest(q) == Tail(q)
\* (mutation of TryRecvEmpty: the pacing branch runs without the check)
TryRecvEmpty_Unchecked == TRUE
\* `command_receiver.try_recv()` is not Ok: nothing is pending
TryRecvEmpty == cmdq = <<>>

(* --------------------------- process helpers --------------------------- *)
\* (mutation of KillAndWait: the handle is dropped without kill or wait)
KillAndWait_Leaks(alive, held) == alive
\* `if let Some(mut child) = playback_process.take() { kill(); wait(); }`
KillAndWait(alive, held) == alive \ {held}
\* `if let Some(mut child) = playback_process.take() { wait(); }`
WaitOnly(alive, held) == alive \ {held}
\* Command::spawn succeeded: a new child exists
Spawned(alive, pid) == alive \cup {pid}

\* the ffmpeg command line of StartPlayback: -ss <start> -to <end> -i <path>,
\* scaled to the preview size, rgba rawvideo on stdout. `by` is the position
\* of the command that built it, `ok` whether spawn() returned Ok.
PlayRequest(path, ss, to, by, ok) ==
    [kind |-> "play", path |-> path, ss_ms |-> ss, to_ms |-> to,
     ss_arg |-> SecsArg(ss), to_arg |-> SecsArg(to),
     width |-> PREVIEW_WIDTH, height |-> PREVIEW_HEIGHT, by |-> by, ok |-> ok]
\* (mutation of SeekRequest: the offset drifts with the commands seen so far)
SeekRequest_Drifts(path, ss, by, ok) ==
    [kind |-> "seek", path |-> path, ss_ms |-> U32Add(ss, U32Of(by)).value,
     ss_arg |-> SecsArg(U32Add(ss, U32Of(by)).value),
     width |-> PREVIEW_WIDTH, height |-> PREVIEW_HEIGHT, by |-> by, ok |-> ok]
\* the ffmpeg command line of Seek: -ss <at> -i <path> -frames:v 1, same format
SeekRequest(path, ss, by, ok) ==
    [kind |-> "seek", path |-> path, ss_ms |-> ss, ss_arg |-> SecsArg(ss),
     width |-> PREVIEW_WIDTH, height |-> PREVIEW_HEIGHT, by |-> by, ok |-> ok]

\* DecodedFrame as sent on the frame channel: pixel byte count and timestamp
Frame(kind, bytes, ts) == [kind |-> kind, bytes |-> bytes, ts |-> ts]
\* egui::ColorImage::filled([W, H], BLACK): W*H pixels of 4 bytes
BlankBytes == PREVIEW_WIDTH * PREVIEW_HEIGHT * 4
\* (mutation of ReadExactOk: `read` instead of `read_exact`)
ReadExactOk_AnyBytes(avail) == avail > 0
\* read_exact(&mut buffer).is_ok(): the buffer was filled completely
ReadExactOk(avail) == avail >= FRAME_SIZE
\* bytes of `buffer` (frame_size long) that the read filled from the stream
FilledBytes(avail) == Min(avail, FRAME_SIZE)

\* (mutation of SendBlankThenEnded: the event is sent before the blank frame)
SendEndedThenBlank(frames) ==
    [frames |-> Append(frames, Frame("blank", BlankBytes, 0)),
     ended_after |-> Len(frames)]
\* `frame_sender.send(blank); playback_ended_sender.send(PlaybackEnded)`:
\* the frame log afterwards, and how many frames precede the event
SendBlankThenEnded(frames) ==
    [frames |-> Append(frames, Frame("blank", BlankBytes, 0)),
     ended_after |-> Len(frames) + 1]

\* (mutation of StoreSource: the trim bounds are stored swapped)
StoreSource_Swapped(cmd) == <<cmd.path, cmd.trim_end_ms, cmd.trim_start_ms>>
\* `current_clip_path = Some(path.clone()); ..trim_start_ms; ..trim_end_ms`
StoreSource(cmd) == <<cmd.path, cmd.trim_start_ms, cmd.trim_end_ms>>

\* (mutation of IdleSession: the stream is not cleared)
IdleSession_KeepsStream == <<NoProc, playback_stdout, FALSE>>
\* (mutation of IdleSession: the flag is left as it was)
IdleSession_KeepsFlag == <<NoProc, NoProc, is_playing>>
\* (mutation of IdleSession: the flag is toggled instead of cleared)
IdleSession_Toggles == <<NoProc, NoProc, ~is_playing>>
\* `playback_process.take(); playback_stdout = None; is_playing = false;`
IdleSession == <<NoProc, NoProc, FALSE>>
\* `playback_stdout = child.stdout.take()..; playback_process = Some(child);
\*  is_playing = true;` (stdout is Some: the child was spawned with a pipe)
PlayingSession(pid) == <<pid, pid, TRUE>>
\* (mutation of SpawnErrSession: the flag is set although nothing was spawned)
SpawnErrSession_Plays == <<NoProc, playback_stdout, TRUE>>
\* StartPlayback with spawn() Err: the process was taken, the rest is untouched
SpawnErrSession == <<NoProc, playback_stdout, is_playing>>

\* assignment of the three session fields / the three source fields
SetSession(s) ==
    /\ playback_process' = s[1]
    /\ playback_stdout' = s[2]
    /\ is_playing' = s[3]
SetSource(s) ==
    /\ current_clip_path' = s[1]
    /\ current_clip_trim_start_ms' = s[2]
    /\ current_clip_trim_end_ms' = s[3]

(* ------------------------- the application's state -------------------- *)
\* Option::None of current_active_clip_id and selected_clip; clips are
\* numbered from 1 here (from 0 in the Vec)
NoClip == 0
\* what current_preview_texture shows: nothing yet, the n-th frame received
\* from the worker, or the black image the caller makes itself
NoTexture == [source |-> "none", n |-> 0]
FrameTexture(n) == [source |-> "frame", n |-> n]
BlackTexture == [source |-> "black", n |-> 0]
\* VideoEditorApp::new. After the struct's fields: what the latest update
\* cycle sent (out, and the clip under the playhead at each send), the event
\* it handled and what the probe of its import did, how often it set the
\* status, whether its arithmetic overflowed or an assertion
\* failed, how many frames and events the caller has received so far, the
\* texture right after the frame drain, and the cycles run.
NewApp ==
    [clips |-> <<>>,
     total_timeline_duration |-> U32Of(30 * 1000),
     playhead |-> U32Of(0),
     is_exporting |-> FALSE,
     status_message |-> "",
     current_preview_texture |-> NoTexture,
     last_requested_playhead_ms |-> U32Of(0),
     current_active_clip_id |-> NoClip,
     is_playing |-> FALSE,
     pending_clip_transition |-> FALSE,
     clip_drag_init |-> U32Of(0),
     selected_clip |-> NoClip,
     out |-> <<>>,
     out_clip |-> <<>>,
     sent_clip |-> <<>>,
     action |-> "none",
     probe |-> "none",
     status_writes |-> 0,
     overflowed |-> FALSE,
     aborted |-> FALSE,
     frames_received |-> 0,
     ended_received |-> 0,
     drained |-> 0,
     texture_after_drain |-> NoTexture,
     cycles |-> 0]

\* `a + b` overflowed in a build without overflow checks: the wrapped sum is
\* used (and a sum that did not overflow tells nothing about the build)
SumWraps(sum) ==
    IF sum.overflow
    THEN overflow_checks # "on" /\ overflow_checks' = "off"
    ELSE UNCHANGED overflow_checks
\* `a + b` overflowed in a build with overflow checks: the thread panics
SumPanics(sum) ==
    /\ sum.overflow
    /\ overflow_checks # "off"
    /\ overflow_checks' = "on"

Init ==
    /\ cmdq = <<>> /\ sent = <<>> /\ applied = <<>>
    /\ pc = "recv"
    /\ owner = "running"
    /\ app = NewApp
    /\ overflow_checks = "unobserved"
    /\ current_clip_path = NoPath
    /\ current_clip_trim_start_ms = U32Of(0)
    /\ current_clip_trim_end_ms = U32Of(0)
    /\ playback_process = NoProc
    /\ playback_stdout = NoProc
    /\ is_playing = FALSE
    /\ nspawned = 0 /\ unreaped = {} /\ max_alive = 0 /\ stream_bytes = 0
    /\ requests = <<>>
    /\ last_read_bytes = 0
    /\ frame_log = <<>>
    /\ ended_sent = 0
    /\ ended_log = <<>>

\* the worker thread is in its loop
Running == pc \in {"recv", "pace"} /\ owner \in {"running", "dropped"}

(* ------------------------------ caller --------------------------------- *)
\* VideoPlayer::send_command: `let _ = self.command_sender.send(command)`.
\* Once the worker thread has returned the receiver is gone and send fails.
SendCommand(c) ==
    /\ owner = "running"
    /\ Len(sent) < MaxCmds
    /\ sent' = Append(sent, c)
    /\ cmdq' = IF pc \in {"exited", "panicked"} THEN cmdq ELSE ChanSend(cmdq, c)
    /\ UNCHANGED <<applied, pc, owner, app, overflow_checks, sourceVars, sessionVars, procVars, outVars>>

(* --------------------------- worker: commands -------------------------- *)
\* `if let Ok(cmd) = command_receiver.try_recv() { match cmd {..} continue; }`
Receive(type) ==
    /\ Running
    /\ pc = "recv"
    /\ cmdq # <<>>
    /\ ChanFront(cmdq).type = type
    /\ cmdq' = ChanRest(cmdq)
    /\ applied' = Append(applied, ChanFront(cmdq))
    /\ UNCHANGED <<sent, owner, app>>

ApplyLoadClip ==
    /\ Receive("LoadClip")
    /\ SetSource(StoreSource(ChanFront(cmdq)))
    /\ unreaped' = KillAndWait(unreaped, playback_process)
    /\ SetSession(IdleSession)
    /\ pc' = "recv"
    /\ UNCHANGED <<overflow_checks, nspawned, max_alive, stream_bytes, requests, outVars>>

\* (mutation of StartGuard: the `if let Some(path)` test is missing)
StartGuard_NoSourceTest == ~is_playing
\* (mutation of StartGuard: the `if !is_playing` test is missing)
StartGuard_NoPlayingTest == current_clip_path # NoPath
\* `if !is_playing { if let Some(path) = &current_clip_path { .. } }`
StartGuard == ~is_playing /\ current_clip_path # NoPath

\* `current_clip_trim_start_ms + timestamp_ms` overflows u32: a build with
\* overflow checks panics there, a build without them goes on with the
\* wrapped sum.
ApplyStartPlayback ==
    /\ Receive("StartPlayback")
    /\ UNCHANGED <<sourceVars, outVars>>
    /\ IF StartGuard
       THEN LET alive == KillAndWait(unreaped, playback_process)
                pid == nspawned + 1
                sum == U32Add(current_clip_trim_start_ms, ChanFront(cmdq).timestamp_ms)
                by == Len(applied) + 1
            IN  \/ \* spawn() returned Ok(child); stdout is piped
                   \E total \in StreamLens :
                     /\ SumWraps(sum)
                     /\ pc' = "recv"
                     /\ nspawned' = pid
                     /\ unreaped' = Spawned(alive, pid)
                     /\ max_alive' = Max(max_alive, Cardinality(Spawned(alive, pid)))
                     /\ stream_bytes' = total
                     /\ requests' = Append(requests,
                          PlayRequest(current_clip_path, sum.value,
                                      current_clip_trim_end_ms, by, TRUE))
                     /\ SetSession(PlayingSession(pid))
                \/ \* spawn() returned Err
                   /\ SumWraps(sum)
                   /\ pc' = "recv"
                   /\ unreaped' = alive
                   /\ requests' = Append(requests,
                          PlayRequest(current_clip_path, sum.value,
                                      current_clip_trim_end_ms, by, FALSE))
                   /\ SetSession(SpawnErrSession)
                   /\ UNCHANGED <<nspawned, max_alive, stream_bytes>>
                \/ \* the sum overflowed and the build checks overflow: panic
                   /\ SumPanics(sum)
                   /\ pc' = "panicked"
                   /\ unreaped' = alive
                   /\ playback_process' = NoProc
                   /\ UNCHANGED <<nspawned, max_alive, stream_bytes, requests,
                                  playback_stdout, is_playing>>
       ELSE /\ pc' = "recv"
            /\ UNCHANGED <<overflow_checks, sessionVars, procVars>>

\* (mutation of ApplyStopPlayback: stopping reports the end of playback too)
ApplyStopPlayback_SendsEnded ==
    /\ Receive("StopPlayback")
    /\ unreaped' = KillAndWait(unreaped, playback_process)
    /\ SetSession(IdleSession)
    /\ pc' = "recv"
    /\ ended_sent' = ended_sent + 1
    /\ UNCHANGED <<overflow_checks, sourceVars, nspawned, max_alive, stream_bytes,
                   requests, last_read_bytes, frame_log, ended_log>>
ApplyStopPlayback ==
    /\ Receive("StopPlayback")
    /\ unreaped' = KillAndWait(unreaped, playback_process)
    /\ SetSession(IdleSession)
    /\ pc' = "recv"
    /\ UNCHANGED <<overflow_checks, sourceVars, nspawned, max_alive, stream_bytes, requests, outVars>>

\* (mutation of SeekGuard: the `if !is_playing` test is missing)
SeekGuard_NoPlayingTest == current_clip_path # NoPath
\* `if !is_playing { if let Some(path) = &current_clip_path { .. } }`
SeekGuard == ~is_playing /\ current_clip_path # NoPath

ApplySeek ==
    /\ Receive("Seek")
    /\ UNCHANGED <<sourceVars, sessionVars, stream_bytes, ended_sent, ended_log>>
    /\ IF SeekGuard
       THEN LET pid == nspawned + 1
                sum == U32Add(current_clip_trim_start_ms, ChanFront(cmdq).timestamp_ms)
                by == Len(applied) + 1
            IN  \/ \* spawn() Ok: read one frame, then child.wait()
                   \E got \in OneShotLens :
                     /\ SumWraps(sum)
                     /\ pc' = "recv"
                     /\ nspawned' = pid
                     /\ max_alive' = Max(max_alive, Cardinality(Spawned(unreaped, pid)))
                     /\ unreaped' = WaitOnly(Spawned(unreaped, pid), pid)
                     /\ requests' = Append(requests,
                          SeekRequest(current_clip_path, sum.value, by, TRUE))
                     /\ last_read_bytes' = got
                     /\ frame_log' =
                          IF ReadExactOk(got)
                          THEN Append(frame_log,
                                      Frame("seek", FilledBytes(got),
                                            ChanFront(cmdq).timestamp_ms))
                          ELSE frame_log
                \/ \* spawn() Err: nothing else happens
                   /\ SumWraps(sum)
                   /\ pc' = "recv"
                   /\ requests' = Append(requests,
                          SeekRequest(current_clip_path, sum.value, by, FALSE))
                   /\ UNCHANGED <<nspawned, max_alive, unreaped, last_read_bytes, frame_log>>
                \/ \* the sum overflowed and the build checks overflow: panic
                   /\ SumPanics(sum)
                   /\ pc' = "panicked"
                   /\ UNCHANGED <<nspawned, max_alive, unreaped, requests,
                                  last_read_bytes, frame_log>>
       ELSE /\ pc' = "recv"
            /\ UNCHANGED <<overflow_checks, nspawned, max_alive, unreaped, requests,
                           last_read_bytes, frame_log>>

\* Stop: reap the held child and `break`; the thread returns. The receiver
\* goes with it: what is still queued stays in cmdq and is never received.
ApplyStop ==
    /\ Receive("Stop")
    /\ unreaped' = KillAndWait(unreaped, playback_process)
    /\ playback_process' = NoProc
    /\ pc' = "exited"
    /\ UNCHANGED <<overflow_checks, sourceVars, playback_stdout, is_playing,
                   nspawned, max_alive, stream_bytes, requests, outVars>>

(* ---------------------------- worker: pacing --------------------------- *)
\* try_recv() found nothing and `is_playing` with a stream: the worker goes
\* on to sleep out the frame interval and read (the caller may send meanwhile)
BeginFrame ==
    /\ Running
    /\ pc = "recv"
    /\ TryRecvEmpty
    /\ is_playing
    /\ playback_stdout # NoProc
    /\ pc' = "pace"
    /\ UNCHANGED <<chanVars, owner, app, overflow_checks, sourceVars, sessionVars, procVars, outVars>>

\* `match stdout.read_exact(&mut buffer) { Ok(_) => send frame, Err(_) => end }`
ReadFrame ==
    /\ Running
    /\ pc = "pace"
    /\ pc' = "recv"
    /\ UNCHANGED <<chanVars, owner, app, overflow_checks, sourceVars, nspawned, max_alive, requests>>
    /\ IF ReadExactOk(stream_bytes)
       THEN /\ stream_bytes' = stream_bytes - FRAME_SIZE
            /\ last_read_bytes' = FRAME_SIZE
            /\ frame_log' = Append(frame_log,
                                   Frame("play", FilledBytes(stream_bytes), 0))
            /\ UNCHANGED <<sessionVars, unreaped, ended_sent, ended_log>>
       ELSE /\ stream_bytes' = 0
            /\ last_read_bytes' = stream_bytes
            /\ unreaped' = WaitOnly(unreaped, playback_process)
            /\ SetSession(IdleSession)
            /\ frame_log' = SendBlankThenEnded(frame_log).frames
            /\ ended_sent' = ended_sent + 1
            /\ ended_log' = Append(ended_log,
                 [after_frames |-> SendBlankThenEnded(frame_log).ended_after,
                  process |-> playback_process])

\* the worker's steps and the caller's sends
Next ==
    \/ \E c \in PlayerCommand : SendCommand(c)
    \/ ApplyLoadClip
    \/ ApplyStartPlayback
    \/ ApplyStopPlayback
    \/ ApplySeek
    \/ ApplyStop
    \/ BeginFrame
    \/ ReadFrame

Spec == Init /\ [][Next]_vars

\* one step of the worker thread
WorkerStep ==
    \/ ApplyLoadClip
    \/ ApplyStartPlayback
    \/ ApplyStopPlayback
    \/ ApplySeek
    \/ ApplyStop
    \/ BeginFrame
    \/ ReadFrame

\* The worker is a thread of its own that loops without waiting for anybody:
\* as long as it can take a step it eventually takes one (its sleeps are
\* bounded, and a read of a finite stream and a wait on a child return).
LiveSpec == Init /\ [][Next]_vars /\ WF_vars(WorkerStep)

(* ------------------------- the owner's lifetime ------------------------ *)
\* Drop for VideoEditorApp: `self.video_player.send_command(Stop)`, and no
\* join of _thread_handle: drop returns as soon as the message is queued.
DropApp ==
    /\ owner = "running"
    /\ owner' = "dropped"
    /\ sent' = Append(sent, Stop)
    /\ cmdq' = IF pc \in {"exited", "panicked"} THEN cmdq ELSE ChanSend(cmdq, Stop)
    /\ UNCHANGED <<applied, pc, app, overflow_checks, sourceVars, sessionVars, procVars, outVars>>

\* run_native returns and main returns: the process exits and its threads end
\* wherever they are. Children are separate processes: what was not reaped
\* by then stays in `unreaped`.
ProcessExit ==
    /\ owner = "dropped"
    /\ owner' = "exited"
    /\ UNCHANGED <<chanVars, pc, app, overflow_checks, sourceVars, sessionVars, procVars, outVars>>

NextOwner ==
    \/ \E c \in PlayerCommand \ {Stop} : SendCommand(c)
    \/ WorkerStep
    \/ DropApp
    \/ ProcessExit

\* the application from start to exit: commands, then drop, then exit
SpecOwner == Init /\ [][NextOwner]_vars

(* ====================== the application: update() ====================== *)
MIN_CLIP_DURATION == 100
\* the duration an import falls back to when the probe fails
FallbackDuration == 10000
\* the skip buttons move the playhead by this much
SkipMs == 5000
MIN_FRAME_REQUEST_INTERVAL_MS_SCRUBBING == 300

\* what the duration probe did: ffprobe could not be run, wrote bytes that are
\* not UTF-8, wrote text that is not a number, or wrote a number that
\* `(duration_secs * 1000.0) as u32` turned into ms
ProbeSpawnFailed == [kind |-> "spawn failed", ms |-> U32Of(0)]
ProbeNotUtf8 == [kind |-> "not utf-8", ms |-> U32Of(0)]
ProbeNotANumber == [kind |-> "not a number", ms |-> U32Of(0)]
ProbeDuration(ms) == [kind |-> "duration", ms |-> U32Of(ms)]
ProbeFailures == {ProbeSpawnFailed, ProbeNotUtf8, ProbeNotANumber}
get_video_duration(probe) ==
    CASE probe.kind = "spawn failed" ->
            [ok |-> FALSE, err |-> "Error running ffprobe", ms |-> U32Of(0)]
      [] probe.kind = "not utf-8" ->
            [ok |-> FALSE, err |-> "Error reading duration from ffprobe result", ms |-> U32Of(0)]
      [] probe.kind = "not a number" ->
            [ok |-> FALSE, err |-> "Error parsing duration from ffprobe result", ms |-> U32Of(0)]
      [] OTHER -> [ok |-> TRUE, err |-> "", ms |-> probe.ms]

\* `c.timeline_start + (c.trim_end - c.trim_start)`
TimelineEnd(c) ==
    Only({LET d == U32Sub(v.trim_end, v.trim_start)
          IN  Only({[overflow |-> d.overflow \/ s.overflow, value |-> s.value]
                    : s \in {U32Add(v.timeline_start, d.value)}})
          : v \in {c}})
\* `c.timeline_start + c.trim_end - c.trim_start`
TimelineEndLeftToRight(c) ==
    Only({LET s == U32Add(v.timeline_start, v.trim_end)
          IN  Only({[overflow |-> s.overflow \/ d.overflow, value |-> d.value]
                    : d \in {U32Sub(s.value, v.trim_start)}})
          : v \in {c}})
\* the closure of `position`: the playhead is inside the clip
UnderPlayhead(c, playhead) ==
    Only({U32Le(v.timeline_start, p) /\ U32Lt(p, TimelineEnd(v).value)
          : v \in {c}, p \in {playhead}})
\* `self.clips.iter().position(..)`: the first clip under the playhead, NoClip
\* if there is none; the closure ran for every clip up to that one
Position(clips, playhead) ==
    Only({LET idx == IF hits = {} THEN NoClip
                     ELSE CHOOSE i \in hits : \A j \in hits : i <= j
              tried == IF idx = NoClip THEN 1..Len(cs) ELSE 1..idx
          IN  [overflow |-> \E i \in tried : TimelineEnd(cs[i]).overflow, idx |-> idx]
          : cs \in {clips},
            hits \in {{i \in 1..Len(clips) : UnderPlayhead(clips[i], playhead)}}})
\* path and trim bounds of the clip under the playhead, as a LoadClip names them
SourceOf(c) == <<c.path, c.trim_start, c.trim_end>>
NoSource == <<NoPath, U32Of(0), U32Of(0)>>
SourceUnderPlayhead(a) ==
    Only({IF idx = NoClip THEN NoSource ELSE SourceOf(v.clips[idx])
          : v \in {a}, idx \in {Position(a.clips, a.playhead).idx}})

\* set_status
set_status(a, status) ==
    [a EXCEPT !.status_message = status, !.status_writes = @ + 1]
\* self.video_player.send_command(cmd), with the clip that is under the
\* playhead at this moment
Send(a, cmd) ==
    Only({[v EXCEPT !.out = Append(@, cmd),
                    !.out_clip = Append(@, SourceUnderPlayhead(v))] : v \in {a}})
\* an operation left the u32 range
Overflowed(a, flag) == [a EXCEPT !.overflowed = @ \/ flag]
\* A failed assertion ends update() in every build, an overflow in a build
\* with overflow checks.
Halted(a, checks) == Only({v.aborted \/ (checks /\ v.overflowed) : v \in {a}})
\* a part of update() took `a` to `r`: when it panicked, its effects up to the
\* panic are those of `a` (each part does its arithmetic before it sends or
\* assigns)
Part(a, r, checks) ==
    Only({IF Halted(v, checks)
          THEN [a EXCEPT !.overflowed = v.overflowed, !.aborted = v.aborted]
          ELSE v
          : v \in {r}})

(* --------------------------- update(): toolbar ------------------------- *)
\* "Import" clicked and a file picked
ImportClicked(a, path, probe, checks) ==
    LET res == get_video_duration(probe)
        a1 == IF res.ok THEN a ELSE set_status(a, res.err)
        duration == IF res.ok THEN res.ms ELSE U32Of(FallbackDuration)
        ends == [i \in 1..Len(a.clips) |-> TimelineEnd(a.clips[i])]
        offset == IF a.clips = <<>> THEN U32Of(0)
                  ELSE CHOOSE e \in {ends[i].value : i \in 1..Len(a.clips)} :
                           \A i \in 1..Len(a.clips) : U32Le(ends[i].value, e)
        clip == [path |-> path, duration |-> duration, timeline_start |-> offset,
                 trim_start |-> U32Of(0), trim_end |-> duration]
        pushed == [a1 EXCEPT !.clips = Append(@, clip)]
    IN  Part(a1,
             Overflowed(set_status(pushed, "Clip added to timeline."),
                        \E i \in 1..Len(a.clips) : ends[i].overflow),
             checks)

\* "Export All" clicked and an output file picked: export_sequence
export_sequence(a, succeeded, checks) ==
    LET a1 == set_status([a EXCEPT !.is_exporting = TRUE], "Exporting video ...")
        a2 == set_status(a1, IF succeeded THEN "exported successfully!"
                                          ELSE "export failed!")
    IN  Part(a1,
             Overflowed([a2 EXCEPT !.is_exporting = FALSE],
                        \E i \in 1..Len(a.clips) :
                            U32Sub(a.clips[i].trim_end, a.clips[i].trim_start).overflow),
             checks)

\* "Clear" clicked
ClearClicked(a) ==
    LET a1 == [a EXCEPT !.clips = <<>>, !.playhead = U32Of(0)]
    IN  [Send(a1, StopPlayback) EXCEPT !.is_playing = FALSE]

\* the play/pause button clicked
PlayPauseClicked(a, checks) ==
    LET a1 == [a EXCEPT !.is_playing = ~@]
        pos == Position(a1.clips, a1.playhead)
        active_clip == a1.clips[pos.idx]
        clip_playhead_offset_ms == U32Sub(a1.playhead, active_clip.timeline_start)
        r == IF pos.idx = NoClip THEN a1
             ELSE IF a1.is_playing
                  THEN Send(Send(Overflowed(a1, clip_playhead_offset_ms.overflow),
                                 LoadClip(SourceOf(active_clip))),
                            StartPlayback(clip_playhead_offset_ms.value))
                  ELSE Send(a1, StopPlayback)
    IN  Part(a1, Overflowed(r, pos.overflow), checks)

\* the body shared by both skip buttons, after the playhead moved
Skipped(a) ==
    LET a1 == [a EXCEPT !.last_requested_playhead_ms = U32Max]
    IN  IF a1.is_playing
        THEN Send([a1 EXCEPT !.is_playing = FALSE], StopPlayback)
        ELSE a1
\* the skip-back button clicked
SkipBackClicked(a) ==
    Skipped([a EXCEPT !.playhead = U32SaturatingSub(@, U32Of(SkipMs))])
\* the skip-forward button clicked
SkipForwardClicked(a, checks) ==
    LET sum == U32Add(a.playhead, U32Of(SkipMs))
        a1 == [a EXCEPT !.playhead = U32Min(sum.value, a.total_timeline_duration)]
    IN  Part(a, Overflowed(Skipped(a1), sum.overflow), checks)

(* ---------------------- update(): playhead and preview ----------------- *)
\* "move playhead through time"
AdvancePlayhead(a, elapsed_ms, checks) ==
    LET sum == U32Add(a.playhead, elapsed_ms)
        moved == elapsed_ms # U32Of(0)
        a1 == IF moved
              THEN [a EXCEPT !.playhead = U32Min(sum.value, a.total_timeline_duration)]
              ELSE a
        a2 == IF U32Le(a1.total_timeline_duration, a1.playhead)
              THEN Send([a1 EXCEPT !.playhead = a1.total_timeline_duration,
                                   !.is_playing = FALSE],
                        StopPlayback)
              ELSE a1
    IN  IF a.is_playing
        THEN Part(a, Overflowed(a2, moved /\ sum.overflow), checks)
        ELSE a

\* (mutation of DrainLoop: `if let` instead of `while let`)
DrainLoop_Once(texture, pending, n) ==
    IF pending = <<>>
    THEN [texture |-> texture, n |-> n]
    ELSE [texture |-> FrameTexture(ChanFront(pending)), n |-> n + 1]
\* `while let Ok(decoded_frame) = frame_receiver.try_recv()`: pending holds
\* the positions in frame_log of the frames in the channel
RECURSIVE DrainLoop(_, _, _)
DrainLoop(texture, pending, n) ==
    IF pending = <<>>
    THEN [texture |-> texture, n |-> n]
    ELSE DrainLoop(FrameTexture(ChanFront(pending)), ChanRest(pending), n + 1)
\* "read new frame from thread", frames being all that frame_sender has sent
DrainFrames(a, frames) ==
    LET pending == [i \in 1..(Len(frames) - a.frames_received) |-> a.frames_received + i]
        got == DrainLoop(a.current_preview_texture, pending, 0)
    IN  [a EXCEPT !.current_preview_texture = got.texture,
                  !.texture_after_drain = got.texture,
                  !.drained = got.n,
                  !.frames_received = @ + got.n]
\* the loop over playback_ended_receiver.try_recv(), ended being the number
\* of events playback_ended_sender has sent
DrainEnded(a, ended) ==
    [a EXCEPT !.ended_received = ended,
              !.pending_clip_transition = @ \/ (ended > a.ended_received /\ a.is_playing)]

\* "request new clip to load", and the scrubbing request
LoadAndScrub(a, time_since_last_request, checks) ==
    LET pos == Position(a.clips, a.playhead)
        clip_idx == pos.idx
        active_clip == a.clips[clip_idx]
        clip_playhead_offset_ms == U32Sub(a.playhead, active_clip.timeline_start)
        changed == a.current_active_clip_id # clip_idx
        a1 == IF changed
              THEN [Send([a EXCEPT !.current_active_clip_id = clip_idx],
                         LoadClip(SourceOf(active_clip)))
                    EXCEPT !.last_requested_playhead_ms = U32Max]
              ELSE a
        a2 == IF changed /\ a.is_playing
              THEN Send(a1, StartPlayback(clip_playhead_offset_ms.value))
              ELSE a1
        a3 == IF /\ ~a.is_playing
                 /\ \/ changed
                    \/ /\ clip_playhead_offset_ms.value # a2.last_requested_playhead_ms
                       /\ time_since_last_request >= MIN_FRAME_REQUEST_INTERVAL_MS_SCRUBBING
              THEN [Send(a2, Seek(clip_playhead_offset_ms.value))
                    EXCEPT !.last_requested_playhead_ms = clip_playhead_offset_ms.value]
              ELSE a2
    IN  IF clip_idx = NoClip
        THEN Part(a, Overflowed([a EXCEPT !.current_preview_texture = BlackTexture],
                                pos.overflow), checks)
        ELSE Part(a, Overflowed(a3, pos.overflow \/ clip_playhead_offset_ms.overflow),
                  checks)

(* --------------------------- update(): timeline ------------------------ *)
\* the largest and the smallest of a non-empty set of u32
U32MaxOf(S) == CHOOSE x \in S : \A y \in S : U32Le(y, x)
U32MinOf(S) == CHOOSE x \in S : \A y \in S : U32Le(x, y)
\* the update a drag asks for: (new_timeline_start, new_start, new_end), and
\* whether computing it overflowed or failed an assertion
DragResult(overflow, abort, timeline_start, trim_start, trim_end) ==
    [overflow |-> overflow, abort |-> abort, timeline_start |-> timeline_start,
     trim_start |-> trim_start, trim_end |-> trim_end]
\* `if l_res.dragged()`, new_time being x_to_time(pointer_x)
LeftDrag(a, clip, new_time) ==
    LET timeline_end == TimelineEndLeftToRight(clip)
        most == U32Sub(a.total_timeline_duration, U32Of(MIN_CLIP_DURATION))
        first == U32Clamp(new_time, U32Of(0), most.value)
        lo == U32Sub(clip.timeline_start, clip.trim_start)
        hi == U32Sub(timeline_end.value, U32Of(MIN_CLIP_DURATION))
        new_timeline_start == U32Clamp(first.value, lo.value, hi.value)
        kept == U32Sub(timeline_end.value, new_timeline_start.value)
        new_trim_start == U32Sub(clip.trim_end, kept.value)
    IN  DragResult(timeline_end.overflow \/ most.overflow \/ lo.overflow
                       \/ hi.overflow \/ kept.overflow \/ new_trim_start.overflow,
                   first.abort \/ new_timeline_start.abort,
                   new_timeline_start.value, new_trim_start.value, clip.trim_end)
\* `if r_res.dragged()`
RightDrag(a, clip, new_time) ==
    LET least == U32Add(clip.timeline_start, U32Of(MIN_CLIP_DURATION))
        new_timeline_end == U32Clamp(new_time, least.value, a.total_timeline_duration)
        grown == U32Sub(new_timeline_end.value, clip.timeline_start)
        wanted == U32Add(clip.trim_start, grown.value)
        lo == U32Add(clip.trim_start, U32Of(MIN_CLIP_DURATION))
        new_trim_end == U32Clamp(wanted.value, lo.value, clip.duration)
    IN  DragResult(least.overflow \/ grown.overflow \/ wanted.overflow \/ lo.overflow,
                   new_timeline_end.abort \/ new_trim_end.abort,
                   clip.timeline_start, clip.trim_start, new_trim_end.value)
\* `if middle_res.dragged()`, new_time being x_to_time(time_to_x(clip_drag_init)
\* + current_pos.x - pointer_pos.x)
MiddleDrag(a, clip, new_time) ==
    LET ends == [i \in 1..Len(a.clips) |-> TimelineEndLeftToRight(a.clips[i])]
        before == {ends[i].value : i \in {j \in 1..Len(a.clips) :
                                            U32Le(ends[j].value, clip.timeline_start)}}
        prev == IF before = {} THEN U32Of(0) ELSE U32MaxOf(before)
        timeline_end == TimelineEndLeftToRight(clip)
        after == {a.clips[i].timeline_start : i \in {j \in 1..Len(a.clips) :
                      U32Le(timeline_end.value, a.clips[j].timeline_start)}}
        clip_duration == U32Sub(clip.trim_end, clip.trim_start)
        next == U32Sub(IF after = {} THEN a.total_timeline_duration ELSE U32MinOf(after),
                       clip_duration.value)
        new_timeline_start == U32Clamp(new_time, prev, U32Greater(next.value, U32Of(0)))
    IN  DragResult((\E i \in 1..Len(a.clips) : ends[i].overflow)
                       \/ clip_duration.overflow \/ next.overflow,
                   new_timeline_start.abort,
                   new_timeline_start.value, clip.trim_start, clip.trim_end)
\* `if let Some((idx, ..)) = clip_to_update`
ApplyClipUpdate(a, idx, d) ==
    LET a1 == IF a.is_playing
              THEN Send([a EXCEPT !.is_playing = FALSE], StopPlayback)
              ELSE a
    IN  [a1 EXCEPT !.clips[idx].timeline_start = d.timeline_start,
                   !.clips[idx].trim_start = d.trim_start,
                   !.clips[idx].trim_end = d.trim_end]
\* the loop over the clips and what follows it, for the drag the pointer is
\* doing in this cycle (if any); every clip is drawn from timeline_start to
\* timeline_start + clip_duration
Timeline(a, ev, checks) ==
    LET drawn == \E i \in 1..Len(a.clips) : TimelineEnd(a.clips[i]).overflow
        clip == a.clips[ev.idx]
        a1 == IF ev.kind = "middle_drag" /\ ev.started
              THEN [a EXCEPT !.clip_drag_init = clip.timeline_start,
                             !.selected_clip = ev.idx]
              ELSE a
        d == CASE ev.kind = "left_drag" -> LeftDrag(a, clip, ev.time)
               [] ev.kind = "right_drag" -> RightDrag(a, clip, ev.time)
               [] ev.kind = "middle_drag" -> MiddleDrag(a, clip, ev.time)
        r == CASE ev.kind \in {"left_drag", "right_drag", "middle_drag"} ->
                    [ApplyClipUpdate(a1, ev.idx, d)
                     EXCEPT !.overflowed = @ \/ d.overflow, !.aborted = @ \/ d.abort]
               [] ev.kind = "middle_drag_stopped" ->
                    [a EXCEPT !.clip_drag_init = U32Of(0)]
               [] ev.kind = "playhead_drag" -> [a EXCEPT !.playhead = ev.time]
               [] OTHER -> a
    IN  Part(a1, Overflowed(r, drawn), checks)

(* ------------------------ update(): one whole cycle -------------------- *)
\* what the user and the clock do to one update cycle: the widget the
\* pointer acts on (kind), and what that widget needs
Event(kind, path, probe, succeeded, idx, time, started) ==
    [kind |-> kind, path |-> path, probe |-> probe, succeeded |-> succeeded,
     idx |-> idx, time |-> time, started |-> started]
Plain(kind) == Event(kind, NoPath, ProbeNotANumber, FALSE, NoClip, U32Of(0), FALSE)
Import(path, probe) == [Plain("import") EXCEPT !.path = path, !.probe = probe]
Export(succeeded) == [Plain("export") EXCEPT !.succeeded = succeeded]
Drag(kind, idx, time) == [Plain(kind) EXCEPT !.idx = idx, !.time = time]
\* times the pointer is dragged to: the timeline's start, inside it, past its end
PointerTimes == {U32Of(0), U32Of(1000), U32Of(45000)}
\* ms since the previous cycle while playing, and since the last scrub request
ElapsedTimes == {U32Of(0), U32Of(3000)}
SinceTimes == {0, MIN_FRAME_REQUEST_INTERVAL_MS_SCRUBBING}
ClipIds == 1..2
Events ==
    {Plain(k) : k \in {"none", "clear", "play_pause", "skip_back", "skip_forward"}}
    \cup {Import("a.mp4", p) : p \in ProbeFailures \cup {ProbeDuration(2000), ProbeDuration(40000)}}
    \cup {Export(s) : s \in BOOLEAN}
    \cup {Drag(k, i, t) : k \in {"left_drag", "right_drag", "middle_drag"},
                          i \in ClipIds, t \in PointerTimes}
    \cup {[Drag("middle_drag", i, U32Of(1000)) EXCEPT !.started = TRUE] : i \in ClipIds}
    \cup {Drag("middle_drag_stopped", i, U32Of(0)) : i \in ClipIds}
    \cup {Drag("playhead_drag", NoClip, t) : t \in PointerTimes}
\* the events of a short editing session with two files
SessionEvents ==
    {Plain(k) : k \in {"none", "clear", "play_pause", "skip_forward"}}
    \cup {Import("a.mp4", ProbeDuration(2000)), Import("b.mp4", ProbeDuration(6000))}
\* the widget of the event exists in this cycle
Offered(a, ev) ==
    /\ ev.kind \in {"export", "clear"} => a.clips # <<>>
    /\ ev.idx # NoClip => ev.idx <= Len(a.clips)
\* play/pause and the skip buttons set last_play_update_time to now, so the
\* playhead advance of the same cycle sees no time elapsed
Timed(ev, elapsed_ms) ==
    ev.kind \in {"play_pause", "skip_back", "skip_forward"} => elapsed_ms = U32Of(0)
\* the toolbar's buttons
Toolbar(a, ev, checks) ==
    CASE ev.kind = "import" -> ImportClicked(a, ev.path, ev.probe, checks)
      [] ev.kind = "export" -> export_sequence(a, ev.succeeded, checks)
      [] ev.kind = "clear" -> ClearClicked(a)
      [] ev.kind = "play_pause" -> PlayPauseClicked(a, checks)
      [] ev.kind = "skip_back" -> SkipBackClicked(a)
      [] ev.kind = "skip_forward" -> SkipForwardClicked(a, checks)
      [] OTHER -> a
\* update(), from its first line to its last or to the panic that ends it.
\* Each part works on the state the one before it left (x, a bound value).
Cycle(a, ev, elapsed_ms, time_since_last_request, frames, ended, checks) ==
    LET A0 == {[a EXCEPT !.out = <<>>, !.out_clip = <<>>, !.status_writes = 0,
                         !.drained = 0, !.action = ev.kind,
                         !.probe = IF ev.kind = "import" THEN ev.probe.kind ELSE "none",
                         !.cycles = @ + 1]}
        A1 == {Toolbar(x, ev, checks) : x \in A0}
        A2 == {IF Halted(x, checks) THEN x ELSE AdvancePlayhead(x, elapsed_ms, checks)
               : x \in A1}
        A3 == {IF Halted(x, checks) THEN x ELSE DrainFrames(x, frames) : x \in A2}
        A4 == {IF Halted(x, checks) THEN x ELSE DrainEnded(x, ended) : x \in A3}
        A5 == {IF Halted(x, checks) THEN x
               ELSE LoadAndScrub(x, time_since_last_request, checks) : x \in A4}
        A6 == {IF Halted(x, checks) THEN x ELSE Timeline(x, ev, checks) : x \in A5}
    IN  CHOOSE r \in A6 : TRUE

\* send_command for each command of the cycle, in order
RECURSIVE ChanSendAll(_, _)
ChanSendAll(q, cmds) ==
    IF cmds = <<>> THEN q ELSE ChanSendAll(ChanSend(q, Head(cmds)), Tail(cmds))
\* the cycle ended in `r`: its commands are in the channel
Deliver(r) ==
    /\ app' = [r EXCEPT !.sent_clip = @ \o r.out_clip]
    /\ sent' = sent \o r.out
    /\ cmdq' = IF pc \in {"exited", "panicked"} THEN cmdq ELSE ChanSendAll(cmdq, r.out)
\* eframe calls update() once: a cycle without overflow, a cycle whose
\* overflow wrapped, or a cycle that panicked (the panic ends the process)
Update(ev, elapsed_ms, time_since_last_request) ==
    /\ owner = "running"
    /\ app.cycles < MaxUpdates
    /\ Offered(app, ev)
    /\ Timed(ev, elapsed_ms)
    /\ \/ \E wrapping \in {Cycle(app, ev, elapsed_ms, time_since_last_request,
                                  frame_log, ended_sent, FALSE)} :
             /\ SumWraps([overflow |-> wrapping.overflowed])
             /\ Deliver(wrapping)
             /\ owner' = IF wrapping.aborted THEN "panicked" ELSE owner
       \/ \E checking \in {Cycle(app, ev, elapsed_ms, time_since_last_request,
                                  frame_log, ended_sent, TRUE)} :
             /\ SumPanics([overflow |-> checking.overflowed])
             /\ Deliver(checking)
             /\ owner' = "panicked"
    /\ UNCHANGED <<applied, pc, sourceVars, sessionVars, procVars, outVars>>

\* the application alone: every event, the worker not scheduled
NextCaller ==
    \E ev \in Events, e \in ElapsedTimes, s \in SinceTimes : Update(ev, e, s)
SpecCaller == Init /\ [][NextCaller]_vars

\* an editing session with the worker running, up to the application's exit
NextSession ==
    \/ \E ev \in SessionEvents, e \in ElapsedTimes, s \in SinceTimes : Update(ev, e, s)
    \/ WorkerStep
    \/ DropApp
    \/ ProcessExit
SpecSession == Init /\ [][NextSession]_vars

(* ======================= properties of the worker ====================== *)
\* this step is the worker matching on a command of the given type
Applies(type) ==
    /\ Len(applied') = Len(applied) + 1
    /\ applied'[Len(applied')].type = type
\* the command the caller sent at the position the worker is about to consume
NextSent == sent[Len(applied) + 1]
\* the i-th applied command has the given type
AppliedIs(i, type) == i \in 1..Len(applied) /\ applied[i].type = type
\* state left alone by a handler that does nothing
Untouched == UNCHANGED <<sourceVars, sessionVars, procVars, outVars>>

\* C1: at most one decoder child is unreaped at any instant, inside the
\* handlers too (max_alive counts the one-shot child of a Seek while it
\* lives), and the only unreaped child is the one the worker holds.
C1_AtMostOneDecoder ==
    /\ Cardinality(unreaped) <= 1
    /\ max_alive <= 1
    /\ unreaped \subseteq {playback_process}
\* a Seek has run its one-shot child and a later StartPlayback holds a newer one
C1_Witness ==
    /\ nspawned >= 2
    /\ playback_process = nspawned
    /\ unreaped = {nspawned}
    /\ \E i \in 1..Len(frame_log) : frame_log[i].kind = "seek"

\* C2: while the loop runs, is_playing holds exactly when a decoder process
\* and its stream are held.
C2_PlayingIffHeld ==
    pc # "exited" =>
        /\ is_playing => (playback_process # NoProc /\ playback_stdout # NoProc)
        /\ ~is_playing => (playback_process = NoProc /\ playback_stdout = NoProc)
\* playing again after an earlier playback ran to its end
C2_Witness ==
    /\ pc = "recv"
    /\ is_playing
    /\ ended_sent >= 1
    /\ playback_process = nspawned

\* C3: LoadClip, in any state, reaps the held process, stores the command's
\* path and trim bounds, and leaves the worker Idle with no process or stream.
C3_LoadClip ==
    [][Applies("LoadClip") =>
        /\ unreaped' = {}
        /\ current_clip_path' = NextSent.path
        /\ current_clip_trim_start_ms' = NextSent.trim_start_ms
        /\ current_clip_trim_end_ms' = NextSent.trim_end_ms
        /\ playback_process' = NoProc
        /\ playback_stdout' = NoProc
        /\ ~is_playing'
        /\ UNCHANGED <<nspawned, outVars>>]_vars
\* a LoadClip of b.mp4 was applied while a.mp4 was playing
C3_Witness ==
    /\ Len(applied) = 3
    /\ applied[1] = LoadClip(<<"a.mp4", U32Of(0), U32Of(2000)>>)
    /\ AppliedIs(2, "StartPlayback")
    /\ applied[3] = LoadClip(<<"b.mp4", U32Of(500), U32Of(1500)>>)
    /\ nspawned = 1 /\ ended_sent = 0
    /\ current_clip_path = "b.mp4" /\ current_clip_trim_start_ms = U32Of(500)
    /\ unreaped = {} /\ ~is_playing

\* C4: StartPlayback while Idle with a source and a successful spawn ends
\* Playing, holding exactly the new child; while Playing it changes nothing.
C4_StartPlayback ==
    [][Applies("StartPlayback") =>
        /\ is_playing => Untouched
        /\ (~is_playing /\ current_clip_path # NoPath /\ nspawned' # nspawned) =>
              /\ nspawned' = nspawned + 1
              /\ is_playing'
              /\ playback_process' = nspawned'
              /\ playback_stdout' = nspawned'
              /\ unreaped' = {nspawned'}
              /\ UNCHANGED <<sourceVars, outVars>>]_vars
\* a second StartPlayback was applied while the first one's decoder played
C4_Witness ==
    /\ Len(applied) = 3
    /\ AppliedIs(1, "LoadClip")
    /\ AppliedIs(2, "StartPlayback")
    /\ AppliedIs(3, "StartPlayback")
    /\ nspawned = 1 /\ ended_sent = 0
    /\ is_playing /\ playback_process = 1 /\ unreaped = {1}

\* C5: StopPlayback while Playing reaps the decoder, goes Idle and keeps the
\* loaded source, so the guards of a later StartPlayback or Seek still pass.
C5_StopPlaybackKeepsSource ==
    [][(Applies("StopPlayback") /\ is_playing) =>
        /\ unreaped' = {}
        /\ playback_process' = NoProc
        /\ playback_stdout' = NoProc
        /\ ~is_playing'
        /\ UNCHANGED sourceVars
        /\ current_clip_path' # NoPath]_vars
\* after LoadClip, StartPlayback, StopPlayback a second StartPlayback spawned
\* on the source of the one LoadClip
C5_Witness ==
    /\ Len(applied) = 4
    /\ AppliedIs(1, "LoadClip")
    /\ AppliedIs(2, "StartPlayback")
    /\ AppliedIs(3, "StopPlayback")
    /\ AppliedIs(4, "StartPlayback")
    /\ nspawned = 2 /\ ended_sent = 0
    /\ is_playing
    /\ current_clip_path = applied[1].path

\* C6: StopPlayback applied while Idle, or right after another StopPlayback,
\* changes nothing: no session or source change, no spawn, no frame, no event.
C6_StopPlaybackIdempotent ==
    [][(Applies("StopPlayback")
          /\ (~is_playing \/ AppliedIs(Len(applied), "StopPlayback"))) =>
        Untouched]_vars
\* StopPlayback twice in a row, the first one ending a playback
C6_Witness ==
    /\ Len(applied) = 4
    /\ AppliedIs(1, "LoadClip")
    /\ AppliedIs(2, "StartPlayback")
    /\ AppliedIs(3, "StopPlayback")
    /\ AppliedIs(4, "StopPlayback")
    /\ nspawned = 1 /\ ended_sent = 0

\* C7: Seek while Idle with a source sends at most one frame, exactly one iff
\* the one-shot child spawned and delivered a full frame; mode and source are
\* unchanged and the one-shot child is reaped when the handler returns.
C7_SeekIdle ==
    [][(Applies("Seek") /\ ~is_playing /\ current_clip_path # NoPath) =>
        /\ \/ frame_log' = frame_log
           \/ /\ Len(frame_log') = Len(frame_log) + 1
              /\ SubSeq(frame_log', 1, Len(frame_log)) = frame_log
        /\ (frame_log' # frame_log) <=>
              (nspawned' = nspawned + 1 /\ last_read_bytes' = FRAME_SIZE)
        /\ UNCHANGED <<sourceVars, sessionVars, ended_sent>>
        /\ unreaped' = {}]_vars
\* three Seeks on one source: one did not spawn, one read short, one sent a frame
C7_Witness ==
    /\ Len(applied) = 4
    /\ AppliedIs(1, "LoadClip")
    /\ \A i \in 2..4 : AppliedIs(i, "Seek")
    /\ nspawned = 2
    /\ Len(frame_log) = 1
    /\ unreaped = {}

\* C8: Seek while Playing changes nothing: no spawn, no frame, no change of
\* mode, source, held process or the bytes still to come on its stream.
C8_SeekWhilePlaying ==
    [][(Applies("Seek") /\ is_playing) => Untouched]_vars
\* a Seek was applied during a playback that then went on sending frames
C8_Witness ==
    /\ Len(applied) = 3
    /\ AppliedIs(1, "LoadClip")
    /\ AppliedIs(2, "StartPlayback")
    /\ AppliedIs(3, "Seek")
    /\ nspawned = 1 /\ ended_sent = 0 /\ is_playing
    /\ Len(frame_log) = 2
    /\ \A i \in 1..2 : frame_log[i].kind = "play"

\* C9: Stop reaps the held child and ends the loop; once the loop has ended
\* no child is unreaped and nothing is applied, spawned or sent any more.
C9_StopTeardown ==
    /\ [](pc = "exited" => (unreaped = {} /\ playback_process = NoProc))
    /\ [][Applies("Stop") => (pc' = "exited" /\ unreaped' = {})]_vars
    /\ [][pc = "exited" =>
            UNCHANGED <<pc, applied, cmdq, sourceVars, sessionVars, procVars, outVars>>]_vars
\* Stop was applied while playing, with a command queued behind it and
\* another one sent after the loop ended
C9_Witness ==
    /\ pc = "exited"
    /\ Len(applied) = 3
    /\ AppliedIs(2, "StartPlayback")
    /\ AppliedIs(3, "Stop")
    /\ nspawned = 1 /\ ended_sent = 0 /\ is_playing
    /\ Len(cmdq) = 1
    /\ Len(sent) = 4

\* the commands up to and including the first Stop
RECURSIVE UpToFirstStop(_)
UpToFirstStop(s) ==
    IF s = <<>> THEN <<>>
    ELSE IF Head(s).type = "Stop" THEN <<Head(s)>>
    ELSE <<Head(s)>> \o UpToFirstStop(Tail(s))

\* C10: the worker applies the commands in the order they were sent, one per
\* loop iteration, none skipped, duplicated or reordered, up to the first Stop.
C10_AppliedInSendOrder ==
    /\ [](/\ Len(applied) <= Len(UpToFirstStop(sent))
          /\ applied = SubSeq(UpToFirstStop(sent), 1, Len(applied))
          /\ pc \in {"recv", "pace"} => sent = applied \o cmdq
          /\ pc = "exited" <=> AppliedIs(Len(applied), "Stop"))
    /\ [][\/ applied' = applied
          \/ /\ Len(applied') = Len(applied) + 1
             /\ SubSeq(applied', 1, Len(applied)) = applied
             /\ pc = "recv"]_vars
\* four commands of four types were applied, in the order sent
C10_Witness ==
    /\ Len(applied) = 4
    /\ AppliedIs(1, "LoadClip")
    /\ AppliedIs(2, "Seek")
    /\ AppliedIs(3, "StartPlayback")
    /\ AppliedIs(4, "StopPlayback")
    /\ cmdq = <<>>

(* ------------------- the loop: commands versus frames ------------------ *)
\* the step sends a frame of continuous playback (a decoded one or the blank)
PacingFrameSent ==
    /\ Len(frame_log') = Len(frame_log) + 1
    /\ frame_log'[Len(frame_log')].kind \in {"play", "blank"}
\* the step is one receive: the oldest pending command, and only it
AppliesFront ==
    /\ cmdq # <<>>
    /\ applied' = Append(applied, ChanFront(cmdq))
    /\ cmdq' = Tail(cmdq)

\* C11 as stated: the worker does not read or emit a continuous-playback frame
\* while a command sent earlier is still pending in the command channel.
C11_NoFrameWhilePending ==
    [][PacingFrameSent => cmdq = <<>>]_vars

\* C11 amended: the worker starts the frame work of an iteration only after
\* that iteration's command check found the channel empty, and frames of
\* continuous playback are sent by that frame work only; a command sent
\* after the check waits through that one read and blocks the next one.
C11_FrameWorkOnlyAfterEmptyCheck ==
    [][/\ (pc = "recv" /\ pc' = "pace") => (cmdq = <<>> /\ cmdq' = <<>>)
       /\ PacingFrameSent => (pc = "pace" /\ pc' = "recv")
       /\ (pc = "pace" /\ pc' = "pace") => (sent' # sent /\ frame_log' = frame_log)]_vars
\* a command was sent after the check and is pending while the worker is
\* about to read the frame
C11_Witness ==
    /\ pc = "pace"
    /\ cmdq # <<>>
    /\ stream_bytes >= FRAME_SIZE

\* C12: an iteration that finds a pending command applies exactly that one
\* command and does no frame work (no read of the decoder stream, no frame
\* of the pacing branch, no PlaybackEnded), then restarts with a new command
\* check (or ends, for Stop and for a failure of the handler).
C12_CommandsBeforePacing ==
    [][/\ (pc = "recv" /\ cmdq # <<>> /\ sent' = sent) => AppliesFront
       /\ Len(applied') > Len(applied) =>
            /\ AppliesFront
            /\ pc = "recv" /\ pc' # "pace"
            /\ ~PacingFrameSent
            /\ Len(frame_log') <= Len(frame_log) + 1
            /\ ended_sent' = ended_sent /\ ended_log' = ended_log
            /\ stream_bytes' = stream_bytes \/ nspawned' = nspawned + 1]_vars
\* a command was applied while Playing with a whole frame ready to be read:
\* no frame was read, and the next command is pending
C12_Witness ==
    /\ Len(applied) = 3
    /\ AppliedIs(3, "Seek")
    /\ is_playing
    /\ stream_bytes >= FRAME_SIZE
    /\ frame_log = <<>>
    /\ cmdq # <<>>
    /\ pc = "recv"

(* ---------------------------- end of stream ---------------------------- *)
\* the successful continuous-decoder requests so far
PlaysStarted == {i \in 1..Len(requests) : requests[i].kind = "play" /\ requests[i].ok}
\* the step is a continuous read that fails or comes up short
ReadFails == pc = "pace" /\ pc' = "recv" /\ ~(stream_bytes >= FRAME_SIZE)

\* C13: a failed or short continuous read reaps the decoder, clears the
\* stream, goes Idle and sends exactly one blank frame and then exactly one
\* PlaybackEnded, in the same iteration; at most one PlaybackEnded is sent
\* per successful StartPlayback.
C13_EndOfStream ==
    /\ [][ReadFails =>
            /\ playback_process # NoProc
            /\ unreaped' = unreaped \ {playback_process}
            /\ playback_process' = NoProc /\ playback_stdout' = NoProc
            /\ ~is_playing'
            /\ frame_log' = Append(frame_log, Frame("blank", FRAME_SIZE, 0))
            /\ ended_sent' = ended_sent + 1
            /\ Len(ended_log') = Len(ended_log) + 1
            /\ ended_log'[Len(ended_log')].after_frames = Len(frame_log')
            /\ ended_log'[Len(ended_log')].process = playback_process]_vars
    /\ [][ended_sent' # ended_sent => ReadFails]_vars
    /\ [](/\ ended_sent = Len(ended_log)
          /\ ended_sent <= Cardinality(PlaysStarted)
          /\ \A i, j \in 1..Len(ended_log) :
                ended_log[i].process = ended_log[j].process => i = j)
\* two playbacks ran to their end, the second one on a short read after a
\* whole frame: two events, each right after its blank frame
C13_Witness ==
    /\ ended_sent = 2
    /\ Cardinality(PlaysStarted) = 2
    /\ Len(frame_log) = 3
    /\ frame_log[2].kind = "play"
    /\ frame_log[3].kind = "blank"
    /\ last_read_bytes = PartialBytes
    /\ unreaped = {}

\* the worker is Playing, nothing is pending and the caller sends no more
QuietPlaying ==
    /\ pc \in {"recv", "pace"}
    /\ is_playing
    /\ cmdq = <<>>
    /\ Len(sent) = MaxCmds

\* C14: if the worker is Playing, no further command arrives and the decoder's
\* stream is finite, the worker eventually sends PlaybackEnded, exactly once,
\* and is Idle again.
C14_PlaybackEnds ==
    /\ QuietPlaying ~> (~is_playing /\ ended_sent > 0)
    /\ [][QuietPlaying =>
            \/ is_playing' /\ ended_sent' = ended_sent
            \/ ~is_playing' /\ ended_sent' = ended_sent + 1]_vars
    /\ [][(cmdq = <<>> /\ Len(sent) = MaxCmds /\ ~is_playing /\ pc = "recv")
             => UNCHANGED <<is_playing, ended_sent>>]_vars
\* the last command sent was a StartPlayback, and its stream, two whole
\* frames long, was played to the end
C14_Witness ==
    /\ Len(sent) = MaxCmds
    /\ Len(applied) = MaxCmds
    /\ AppliedIs(MaxCmds, "StartPlayback")
    /\ ~is_playing
    /\ ended_sent = 1
    /\ Len(frame_log) = 3
    /\ frame_log[1].kind = "play" /\ frame_log[2].kind = "play"
    /\ pc = "recv"

(* ------------------------------ shutdown ------------------------------- *)
\* every command that reached the channel, in order: what the worker has
\* received and what is still queued
Enqueued == applied \o cmdq
StopIndexes(q) == {i \in 1..Len(q) : q[i].type = "Stop"}
FirstStopAt(q) == CHOOSE i \in StopIndexes(q) : \A j \in StopIndexes(q) : i <= j
\* the worker loop has ended
Terminated == pc \notin {"recv", "pace"}

\* C15: once Stop has been enqueued the worker loop eventually terminates, and
\* every command enqueued before the Stop is applied before termination.
C15_StopAfterAllEarlier ==
    /\ (StopIndexes(cmdq) # {}) ~> Terminated
    /\ []((Terminated /\ StopIndexes(Enqueued) # {})
            => Len(applied) >= FirstStopAt(Enqueued) - 1)

\* C16: when the application is dropped it sends Stop and the worker has
\* processed it before the owner finishes: the owner has never exited while
\* a decoder child is still alive.
C16_ShutdownAwaited ==
    owner = "exited" => unreaped = {}

(* ------------------------------- frames -------------------------------- *)
\* C17: every DecodedFrame sent (continuous read, Seek one-shot, blank frame)
\* carries exactly PREVIEW_WIDTH * PREVIEW_HEIGHT * 4 bytes of pixel data, and
\* a read that did not fill the whole buffer produces no decoded frame.
C17_FrameSize ==
    /\ [](\A i \in 1..Len(frame_log) :
            frame_log[i].bytes = PREVIEW_WIDTH * PREVIEW_HEIGHT * 4)
    /\ [][(/\ Len(frame_log') > Len(frame_log)
           /\ frame_log'[Len(frame_log')].kind \in {"seek", "play"})
             => last_read_bytes' = PREVIEW_WIDTH * PREVIEW_HEIGHT * 4]_vars
    /\ [][(pc = "recv" /\ nspawned' # nspawned /\ last_read_bytes' # FRAME_SIZE
           /\ requests'[Len(requests')].kind = "seek")
             => frame_log' = frame_log]_vars
\* a one-shot frame, a continuous frame and the blank frame were sent, the
\* last after a read that came up one byte short
C17_Witness ==
    /\ Len(frame_log) = 3
    /\ frame_log[1].kind = "seek"
    /\ frame_log[2].kind = "play"
    /\ frame_log[3].kind = "blank"
    /\ last_read_bytes = PartialBytes

(* ------------------------------- failures ------------------------------ *)
\* the step hands a command line to spawn() and spawn() fails
SpawnFails ==
    /\ Len(requests') = Len(requests) + 1
    /\ ~requests'[Len(requests')].ok

\* C18: a failed spawn, for StartPlayback or for Seek, leaves the session as
\* it was: Idle, same source, no process and no stream held, nothing started,
\* no frame and no PlaybackEnded sent; the loop goes on and a later
\* StartPlayback or Seek passes the same guard again.
C18_SpawnFailureKeepsState ==
    [][SpawnFails =>
         /\ ~is_playing /\ ~is_playing'
         /\ playback_process' = NoProc /\ playback_stdout' = NoProc
         /\ UNCHANGED <<sourceVars, sessionVars>>
         /\ UNCHANGED <<nspawned, unreaped, stream_bytes>>
         /\ UNCHANGED outVars
         /\ pc' = "recv"
         /\ ~is_playing' /\ current_clip_path' # NoPath]_vars
\* StartPlayback failed to spawn, then Seek failed to spawn, then a second
\* StartPlayback succeeded
C18_Witness ==
    /\ Len(requests) = 3
    /\ requests[1].kind = "play" /\ ~requests[1].ok
    /\ requests[2].kind = "seek" /\ ~requests[2].ok
    /\ requests[3].kind = "play" /\ requests[3].ok
    /\ is_playing
    /\ frame_log = <<>>

\* C19: no failure inside the worker ends the loop; the loop ends only by
\* applying a Stop command.
C19_OnlyStopEndsLoop ==
    [][(~Terminated /\ Terminated') =>
         (AppliesFront /\ ChanFront(cmdq).type = "Stop" /\ pc' = "exited")]_vars

(* ---------------------------- determinism ------------------------------ *)
\* what one-shot decoder the i-th applied command asked for: the command
\* lines (without their position and outcome) it handed to spawn()
OneShotIn(reqs, i) ==
    {[path |-> reqs[k].path, ss_ms |-> reqs[k].ss_ms,
      width |-> reqs[k].width, height |-> reqs[k].height] :
        k \in {n \in 1..Len(reqs) : reqs[n].by = i /\ reqs[n].kind = "seek"}}
OneShotOf(i) == OneShotIn(requests, i)
\* the i-th and the j-th applied commands are Seeks for the same timestamp
\* against the same loaded source: a LoadClip before, none in between
SameSeekTwice(i, j) ==
    /\ i < j
    /\ applied[i].type = "Seek" /\ applied[j].type = "Seek"
    /\ applied[i].timestamp_ms = applied[j].timestamp_ms
    /\ \E l \in 1..(i - 1) : applied[l].type = "LoadClip"
    /\ \A l \in i..j : applied[l].type # "LoadClip"

\* C20 as stated: two Seek commands with the same timestamp_ms applied
\* against the same loaded source issue identical one-shot decoder requests,
\* whatever StartPlayback, StopPlayback or Seek was applied in between.
C20_AnyTwoSeeksSameRequest ==
    \A i, j \in 1..Len(applied) :
      SameSeekTwice(i, j) => OneShotOf(i) = OneShotOf(j)

\* C20 amended: the one-shot requests that two such Seeks issue are identical:
\* same path, same offset (the u32 sum of trim_start_ms and timestamp_ms),
\* same scale; a Seek issues one request when applied in Idle and none when
\* applied while Playing.
C20_SeekRequestsIdentical ==
    /\ [](\A i, j \in 1..Len(applied) :
            (SameSeekTwice(i, j) /\ OneShotOf(i) # {} /\ OneShotOf(j) # {})
               => OneShotOf(i) = OneShotOf(j))
    /\ [](\A i \in 1..Len(applied) : Cardinality(OneShotOf(i)) <= 1)
    /\ [][(AppliesFront /\ ChanFront(cmdq).type = "Seek" /\ ~Terminated') =>
            LET me == OneShotIn(requests', Len(applied'))
            IN  IF is_playing \/ current_clip_path = NoPath
                THEN me = {}
                ELSE me = {[path |-> current_clip_path,
                            ss_ms |-> U32Add(current_clip_trim_start_ms,
                                             ChanFront(cmdq).timestamp_ms).value,
                            width |-> PREVIEW_WIDTH,
                            height |-> PREVIEW_HEIGHT]}]_vars
\* the same Seek was applied twice in Idle, before and after a playback that
\* ran to its end, and both asked for the same one-shot decoder
C20_Witness ==
    /\ Len(applied) = 4
    /\ AppliedIs(1, "LoadClip")
    /\ AppliedIs(2, "Seek")
    /\ AppliedIs(3, "StartPlayback")
    /\ AppliedIs(4, "Seek")
    /\ applied[2] = applied[4]
    /\ Cardinality(PlaysStarted) = 1
    /\ ended_sent = 1
    /\ OneShotOf(2) # {}
    /\ OneShotOf(2) = OneShotOf(4)

(* ------------------- what ends playback, and how ----------------------- *)
\* the step sends the blank frame
BlankFrameSent ==
    /\ Len(frame_log') = Len(frame_log) + 1
    /\ frame_log'[Len(frame_log')].kind = "blank"

\* C28: PlaybackEnded is sent only when a continuous read fails in the pacing
\* loop; ending playback by StopPlayback, LoadClip or Stop sends neither a
\* PlaybackEnded nor a blank frame.
C28_EndedOnlyFromPacing ==
    [][/\ (ended_sent' # ended_sent \/ ended_log' # ended_log \/ BlankFrameSent)
            => (pc = "pace" /\ is_playing /\ stream_bytes < FRAME_SIZE)
       /\ (AppliesFront
           /\ ChanFront(cmdq).type \in {"StopPlayback", "LoadClip", "Stop"})
            => UNCHANGED <<frame_log, ended_sent, ended_log>>]_vars
\* a playback that had delivered a frame, with more to come, was ended by
\* StopPlayback: nothing but that frame was sent
C28_Witness ==
    /\ Len(applied) = 3
    /\ AppliedIs(2, "StartPlayback")
    /\ AppliedIs(3, "StopPlayback")
    /\ Cardinality(PlaysStarted) = 1
    /\ stream_bytes >= FRAME_SIZE
    /\ Len(frame_log) = 1
    /\ frame_log[1].kind = "play"
    /\ ended_sent = 0
    /\ ~is_playing
    /\ unreaped = {}

\* no LoadClip has been applied so far
NoLoadApplied == \A i \in 1..Len(applied) : applied[i].type # "LoadClip"

\* C29: before any LoadClip has been applied StartPlayback and Seek are
\* no-ops: no process is spawned, no frame or event is sent, and the worker
\* stays Idle with no source.
C29_NoSourceNoOp ==
    /\ [](NoLoadApplied =>
            /\ current_clip_path = NoPath
            /\ ~is_playing
            /\ playback_process = NoProc /\ playback_stdout = NoProc
            /\ nspawned = 0 /\ unreaped = {} /\ requests = <<>>
            /\ frame_log = <<>> /\ ended_sent = 0
            /\ pc # "panicked")
    /\ [][(NoLoadApplied /\ AppliesFront
           /\ ChanFront(cmdq).type \in {"StartPlayback", "Seek"})
            => (Untouched /\ pc' = "recv" /\ UNCHANGED overflow_checks)]_vars
\* a StartPlayback and a Seek, both for the largest timestamp, were applied
\* with no source loaded, and the loop goes on
C29_Witness ==
    /\ Len(applied) = 2
    /\ applied[1] = StartPlayback(U32Max)
    /\ applied[2] = Seek(U32Max)
    /\ pc = "recv"
    /\ current_clip_path = NoPath

(* ---------------------------- decoder offsets -------------------------- *)
\* the mathematical sum of two u32 values
MathSum(a, b) == Wide(a[1] + b[1], a[2] + b[2])

\* C24: for every stored source and every u32 timestamp_ms, StartPlayback
\* asks for the continuous decoder from trim_start_ms + timestamp_ms
\* milliseconds to trim_end_ms, and Seek for the one-shot decoder at
\* trim_start_ms + timestamp_ms; the sum is the exact mathematical sum for
\* all u32 operands, with no wrap-around and no abort of the worker.
C24_ExactOffsets ==
    [][(/\ AppliesFront
        /\ ChanFront(cmdq).type \in {"StartPlayback", "Seek"}
        /\ ~is_playing /\ current_clip_path # NoPath) =>
          /\ ~Terminated'
          /\ Len(requests') = Len(requests) + 1
          /\ LET r == requests'[Len(requests')]
             IN  /\ r.by = Len(applied')
                 /\ r.path = current_clip_path
                 /\ r.ss_arg = MathSum(current_clip_trim_start_ms,
                                       ChanFront(cmdq).timestamp_ms)
                 /\ IF ChanFront(cmdq).type = "StartPlayback"
                    THEN r.kind = "play" /\ r.to_arg = current_clip_trim_end_ms
                    ELSE r.kind = "seek"]_vars

(* ===================== properties of the application =================== *)
\* the latest update cycle handled this event and returned
Handled(kind) == app.action = kind /\ owner = "running"
\* the diagnostics of get_video_duration
ProbeDiagnostics ==
    {"Error running ffprobe", "Error reading duration from ffprobe result",
     "Error parsing duration from ffprobe result"}

\* C22: after an import whose duration probe failed (spawn failure, output
\* that is not UTF-8, output that is not a number), the clip is in the
\* timeline with the fallback duration of 10000 ms and the status message is
\* the probe's diagnostic.
C22_ProbeFailureStatus ==
    (Handled("import") /\ app.probe \in {p.kind : p \in ProbeFailures}) =>
        /\ app.clips # <<>>
        /\ app.clips[Len(app.clips)].duration = U32Of(10000)
        /\ app.clips[Len(app.clips)].trim_end = U32Of(10000)
        /\ app.status_message \in ProbeDiagnostics

\* C23: an update cycle sets the status message at most once, whatever the
\* user action it handles (import, export, clear, play/pause, skip, drag) and
\* whatever the outcome of the action (probe failure and export failure
\* included).
C23_StatusOncePerAction == app.status_writes <= 1

\* the events that drag a clip or one of its handles
ClipDrags == {"left_drag", "right_drag", "middle_drag"}
\* trim_start <= trim_end <= duration
TrimBoundsOk(c) == U32Le(c.trim_start, c.trim_end) /\ U32Le(c.trim_end, c.duration)
\* C25: after any imports and left-handle, right-handle and middle drags,
\* every clip of the timeline has trim_start <= trim_end <= duration, every
\* LoadClip sent carries trim_start_ms <= trim_end_ms, and no drag
\* computation leaves the u32 range (underflow) or fails an assertion (abort).
C25_TrimBoundsKept ==
    /\ \A i \in 1..Len(app.clips) : TrimBoundsOk(app.clips[i])
    /\ \A i \in 1..Len(sent) :
          sent[i].type = "LoadClip" => U32Le(sent[i].trim_start_ms, sent[i].trim_end_ms)
    /\ app.action \in ClipDrags => ~app.overflowed /\ ~app.aborted

\* this step is an update cycle that ran to its end
UpdateReturns == app'.cycles = app.cycles + 1 /\ owner' = "running"
\* the cycle's drain emptied the frame channel: the caller has received
\* every frame the worker has sent
DrainedCompletely == app'.frames_received = Len(frame_log)

\* C21 as stated: in each update cycle the caller drains the frame channel
\* completely, and once a frame has been received the preview texture after
\* the drain is the most recently received frame.
C21_TextureIsLatestFrame ==
    [][UpdateReturns =>
          /\ DrainedCompletely
          /\ Len(frame_log) > 0 =>
                app'.texture_after_drain = FrameTexture(Len(frame_log))]_vars

\* C21: frames are received in the order the worker sent them; in each
\* update cycle the caller drains the frame channel completely; after a
\* drain that received a frame the preview texture is the most recently
\* received frame, and a drain that received none leaves the texture as it
\* was.
C21_DrainKeepsLatestFrame ==
    [][UpdateReturns =>
          /\ DrainedCompletely
          /\ app'.drained = Len(frame_log) - app.frames_received
          /\ app'.texture_after_drain =
                IF Len(frame_log) > app.frames_received
                THEN FrameTexture(Len(frame_log))
                ELSE app.current_preview_texture]_vars
\* a cycle has drained two frames at once and shows the second
C21_Witness ==
    /\ owner = "running"
    /\ app.drained = 2 /\ app.frames_received = 3
    /\ app.texture_after_drain = FrameTexture(3)

\* the worker has received every command sent and waits for the next one
ChannelDrained == cmdq = <<>> /\ pc = "recv" /\ Len(applied) = Len(sent)
\* C26: whenever the caller is paused and the worker has drained the command
\* channel, the worker is Idle; and every update cycle in which the caller's
\* is_playing goes from true to false sends a StopPlayback.
C26_PausedMeansIdle ==
    /\ [](( owner = "running" /\ ~app.is_playing /\ ChannelDrained) => ~is_playing)
    /\ [][(app.is_playing /\ ~app'.is_playing) =>
             \E i \in 1..Len(app'.out) : app'.out[i] = StopPlayback]_vars

\* the source the worker has stored
StoredSource ==
    <<current_clip_path, current_clip_trim_start_ms, current_clip_trim_end_ms>>
\* C27: when the worker applies a Seek or a StartPlayback, the source it has
\* stored (path, trim_start_ms, trim_end_ms) is the path and the trim bounds
\* the caller's clip under the playhead had when the command was sent.
C27_StoredSourceIsCallersClip ==
    [][(Applies("Seek") \/ Applies("StartPlayback")) =>
          StoredSource = app.sent_clip[Len(applied')]]_vars
====
